---------------------------- MODULE Spec2Model ----------------------------
(***************************************************************************)
(* A model of auditoff's scanner (src/main.py): the process-wide finding   *)
(* list, the eight detection rules over a parsed Lua syntax tree, the      *)
(* interactive driver loop, and the line resolution get_line_number.       *)
(*                                                                         *)
(* Conventions                                                             *)
(*  - Python integers are unbounded; a literal is held as a pair <<hi,lo>> *)
(*    standing for hi * 65536 + lo with lo in 0..65535, so that values on  *)
(*    both sides of INT_MAX and INT_MIN are representable.                 *)
(*  - An identifier (str) is a sequence of one-character strings, so that  *)
(*    str.lower() is computed character by character.                      *)
(*  - Python's None is the number 0 where a line or a node is expected     *)
(*    (lines and node identities start at 1).                              *)
(***************************************************************************)
EXTENDS Integers, Sequences, FiniteSets, TLC

VARIABLES
    vulnerabilities,  \* the module-level list `vulnerabilities`
    pc,               \* position of the running process
    code,             \* main's local `code`: the text read from the file
    disk,             \* the file system: path -> file contents
    stdout,           \* the last thing written to the console
    report,           \* contents of report.json
    scanned,          \* the file contents read so far, oldest first
    tree,             \* get_line_number: the nodes its argument lives in
    stack,            \* get_line_number: arguments of the active calls
    ret               \* get_line_number: the returned value

vars == <<vulnerabilities, pc, code, disk, stdout, report, scanned, tree, stack, ret>>

None == 0

-----------------------------------------------------------------------------
(* Integers *)

INT_MAX == <<32767, 65535>>     \* 2147483647
INT_MIN == <<-32768, 0>>        \* -2147483648

\* a >= b on Python integers
GE(a, b) == a[1] > b[1] \/ (a[1] = b[1] /\ a[2] >= b[2])
\* a <= b on Python integers
LE(a, b) == a[1] < b[1] \/ (a[1] = b[1] /\ a[2] <= b[2])

\* (the bounds themselves taken as in range)
is_potential_overflow_strict(number) ==
    (GE(number, INT_MAX) /\ number # INT_MAX) \/ (LE(number, INT_MIN) /\ number # INT_MIN)

is_potential_overflow(number) == GE(number, INT_MAX) \/ LE(number, INT_MIN)

-----------------------------------------------------------------------------
(* Strings *)

UpperCase == <<"A","B","C","D","E","F","G","H","I","J","K","L","M",
               "N","O","P","Q","R","S","T","U","V","W","X","Y","Z">>
LowerCase == <<"a","b","c","d","e","f","g","h","i","j","k","l","m",
               "n","o","p","q","r","s","t","u","v","w","x","y","z">>

LowerChar(c) ==
    IF \E i \in DOMAIN UpperCase : UpperCase[i] = c
    THEN LowerCase[CHOOSE i \in DOMAIN UpperCase : UpperCase[i] = c]
    ELSE c

\* str.lower()
Lower(s) == [i \in DOMAIN s |-> LowerChar(s[i])]

\* x in list
In(x, list) == \E i \in DOMAIN list : list[i] = x

-----------------------------------------------------------------------------
(* Syntax nodes (luaparser.astnodes).  A source node is a record           *)
(*   [type, n, id, f]                                                      *)
(* where n is a Number's value, id a Name's identifier and f the node's    *)
(* child fields in declaration order, each field a sequence of nodes (a    *)
(* single-node field is a sequence of length one).                         *)

Node(type, n, id, f) == [type |-> type, n |-> n, id |-> id, f |-> f]

Number(n)               == Node("Number", n, <<>>, <<>>)
Name(id)                == Node("Name", <<0, 0>>, id, <<>>)
BinOp(op, left, right)  == Node(op, <<0, 0>>, <<>>, << <<left>>, <<right>> >>)
Index(idx, value)       == Node("Index", <<0, 0>>, <<>>, << <<idx>>, <<value>> >>)
Call(func, args)        == Node("Call", <<0, 0>>, <<>>, << <<func>>, args >>)
Assign(targets, values) == Node("Assign", <<0, 0>>, <<>>, <<targets, values>>)
LocalAssign(targets, values) == Node("LocalAssign", <<0, 0>>, <<>>, <<targets, values>>)
Return(values)          == Node("Return", <<0, 0>>, <<>>, <<values>>)
Block(body)             == Node("Block", <<0, 0>>, <<>>, <<body>>)
If(test, body, orelse)  == Node("If", <<0, 0>>, <<>>, << <<test>>, <<Block(body)>>, orelse >>)
Function(name, args, body) ==
    Node("Function", <<0, 0>>, <<>>, << <<Name(name)>>, args, <<Block(body)>> >>)
Chunk(body)             == Node("Chunk", <<0, 0>>, <<>>, << <<Block(body)>> >>)
\* text the parser rejects
SyntaxError             == Node("SyntaxError", <<0, 0>>, <<>>, <<>>)

RECURSIVE Concat(_)
Concat(ss) == IF ss = <<>> THEN <<>> ELSE Head(ss) \o Concat(Tail(ss))

\* the children of a source node, in field order
Kids(s) == Concat(s.f)

RECURSIVE Size(_)
RECURSIVE SumSizes(_)
Size(s) == 1 + SumSizes(Kids(s))
SumSizes(list) == IF list = <<>> THEN 0 ELSE Size(Head(list)) + SumSizes(Tail(list))

\* the position among Kids(s) of element j of field i
KidIndex(s, i, j) == Len(Concat(SubSeq(s.f, 1, i - 1))) + j

(* ast.parse: the tree as a table of nodes.  Node k of the table is the    *)
(* k-th node in source order; it keeps its type, n and id, holds its       *)
(* children as table indices, refers to its enclosing node in `parent`     *)
(* (None at the root) and carries its own line, here its position k: every *)
(* node starts on a line of its own, so a finding's line names one node.   *)
RECURSIVE Flatten(_, _, _)
RECURSIVE FlattenAll(_, _, _)
Flatten(s, parent, self) ==
    << [type   |-> s.type,
        n      |-> s.n,
        id     |-> s.id,
        line   |-> self,
        parent |-> parent,
        f      |-> [i \in DOMAIN s.f |->
                      [j \in DOMAIN s.f[i] |->
                         self + 1 + SumSizes(SubSeq(Kids(s), 1, KidIndex(s, i, j) - 1))]]] >>
    \o FlattenAll(Kids(s), self, self + 1)
FlattenAll(list, parent, next) ==
    IF list = <<>> THEN <<>>
    ELSE Flatten(Head(list), parent, next)
         \o FlattenAll(Tail(list), parent, next + Size(Head(list)))

ParseFails(text) == text.type # "Chunk"
Parse(text) == Flatten(text, None, 1)

\* fields of the table's nodes, by the names astnodes gives them
left(nd)    == nd.f[1][1]
right(nd)   == nd.f[2][1]
func(nd)    == nd.f[1][1]
value(nd)   == nd.f[2][1]
targets(nd) == nd.f[1]
values(nd)  == IF nd.type = "Return" THEN nd.f[1] ELSE nd.f[2]
name(nd)    == nd.f[1][1]
args(nd)    == nd.f[2]
body(nd)    == IF nd.type = "Block" THEN nd.f[1] ELSE nd.f[3][1]

isinstance(t, node, type) == t[node].type = type

\* ast.walk: the node and its descendants, in pre-order
RECURSIVE Walk(_, _)
RECURSIVE WalkAll(_, _)
Walk(t, node) == <<node>> \o WalkAll(t, Concat(t[node].f))
WalkAll(t, nodes) ==
    IF nodes = <<>> THEN <<>> ELSE Walk(t, Head(nodes)) \o WalkAll(t, Tail(nodes))

-----------------------------------------------------------------------------
(* get_line_number and add_vulnerability *)

RECURSIVE get_line_number(_, _)
get_line_number(t, node) ==
    IF t[node].line # None THEN t[node].line
    ELSE IF t[node].parent # None THEN get_line_number(t, t[node].parent)
    ELSE None

\* (a finding already in the list is not added again)
add_vulnerability_unique(list, nm, description, pattern, severity, line) ==
    LET v == [name |-> nm, description |-> description, pattern |-> pattern,
              severity |-> severity, line |-> line]
    IN IF In(v, list) THEN list ELSE Append(list, v)

add_vulnerability(list, nm, description, pattern, severity, line) ==
    Append(list, [name        |-> nm,
                  description |-> description,
                  pattern     |-> pattern,
                  severity    |-> severity,
                  line        |-> line])

\* for x in items: list = Visit(t, ctx, x, list)
\* (each iteration's list is computed before the next iteration starts)
RECURSIVE ForEach(_, _, _, _, _)
ForEach(Visit(_, _, _, _), t, ctx, items, list) ==
    IF items = <<>> THEN list
    ELSE LET after == Visit(t, ctx, Head(items), list)
         IN  IF Len(after) >= Len(list)
             THEN ForEach(Visit, t, ctx, Tail(items), after)
             ELSE after

-----------------------------------------------------------------------------
(* Words the rules compare identifiers with *)

another_example == <<"a","n","o","t","h","e","r","_","e","x","a","m","p","l","e">>
external_call   == <<"e","x","t","e","r","n","a","l","_","c","a","l","l">>
perform_expensive_operation ==
    <<"p","e","r","f","o","r","m","_","e","x","p","e","n","s","i","v","e","_",
      "o","p","e","r","a","t","i","o","n">>

private_key_words ==
    << <<"p","r","i","v","a","t","e","k","e","y">>,
       <<"p","r","i","v","a","t","e","_","k","e","y">>,
       <<"s","e","c","r","e","t","k","e","y">>,
       <<"s","e","c","r","e","t","_","k","e","y">>,
       <<"k","e","y","p","a","i","r">>,
       <<"k","e","y","_","p","a","i","r">>,
       <<"a","p","i","_","k","e","y">> >>

deprecated_functions ==
    << <<"s","e","t","f","e","n","v">>, <<"g","e","t","f","e","n","v">> >>

transfer_functions ==
    << <<"t","r","a","n","s","f","e","r">>,
       <<"t","r","a","n","s","f","e","r","_","f","u","n","d","s">>,
       <<"t","r","a","n","s","f","e","r","f","u","n","d","s">>,
       <<"s","e","n","d">>,
       <<"p","a","y">> >>

-----------------------------------------------------------------------------
(* The rules.  Each takes the text and the finding list and gives the list *)
(* as the rule leaves it; each parses the text anew.                       *)

\* analyze_return
ReturnVisit(t, ctx, node, list) ==
    IF isinstance(t, node, "Function")
    THEN LET has_return == \E i \in DOMAIN body(t[body(t[node])]) :
                               isinstance(t, body(t[body(t[node])])[i], "Return")
         IN IF ~has_return
            THEN add_vulnerability(list, "Missing Return Statement",
                                   <<"A function is missing a return statement.">>,
                                   "missing_return", "low", get_line_number(t, node))
            ELSE list
    ELSE list

analyze_return(text, list) ==
    LET t == Parse(text) IN ForEach(ReturnVisit, t, None, Walk(t, 1), list)

\* analyze_overflow_in_node: one operand, value or parameter
OverflowOperand(t, what, operand, list) ==
    IF isinstance(t, operand, "Number") /\ is_potential_overflow(t[operand].n)
    THEN add_vulnerability(list, "Integer Overflow/Underflow",
                           <<"Potential integer overflow/underflow detected with ", what, ".">>,
                           "overflow_underflow", "high", get_line_number(t, operand))
    ELSE list

analyze_overflow_in_node(t, ctx, node, list) ==
    LET nd == t[node]
        v1 == IF nd.type \in {"AddOp", "SubOp", "MultOp"}
              THEN OverflowOperand(t, "right operand", right(nd),
                       OverflowOperand(t, "left operand", left(nd), list))
              ELSE list
        v2 == IF nd.type = "LocalAssign"
              THEN ForEach(OverflowOperand, t, "local variable assignment", values(nd), v1)
              ELSE v1
    IN  IF nd.type = "Function"
        THEN ForEach(OverflowOperand, t, "function argument", args(nd), v2)
        ELSE v2

\* analyze_overflow_and_return: a Return statement of another_example
OverflowReturnValue(t, fn, ret_val, list) ==
    IF isinstance(t, ret_val, "Number") /\ is_potential_overflow(t[ret_val].n)
    THEN add_vulnerability(list, "Integer Overflow/Underflow",
             <<"Potential integer overflow/underflow detected in return statement of function '",
               t[name(t[fn])].id, "'.">>,
             "overflow_underflow", "high", get_line_number(t, ret_val))
    ELSE list

OverflowReturn(t, fn, n, list) ==
    IF isinstance(t, n, "Return")
    THEN ForEach(OverflowReturnValue, t, fn, values(t[n]), list)
    ELSE list

\* analyze_overflow_and_return: the body of its loop over ast.walk(tree)
OverflowVisit(t, ctx, node, list) ==
    LET v1 == analyze_overflow_in_node(t, None, node, list)
        v2 == IF isinstance(t, node, "Function")
              THEN ForEach(analyze_overflow_in_node, t, None, Walk(t, body(t[node])), v1)
              ELSE v1
    IN  IF isinstance(t, node, "Function") /\ t[name(t[node])].id = another_example
        THEN ForEach(OverflowReturn, t, node, body(t[body(t[node])]), v2)
        ELSE v2

analyze_overflow_and_return(text, list) ==
    LET t == Parse(text) IN ForEach(OverflowVisit, t, None, Walk(t, 1), list)

\* analyze_reentrancy
is_external_call(t, node) ==
    /\ isinstance(t, node, "Call")
    /\ isinstance(t, func(t[node]), "Name")
    /\ t[func(t[node])].id = external_call

has_state_change(t, node) == isinstance(t, node, "Assign")

ReentrancySubsequent(t, fn, subsequent_node, list) ==
    IF has_state_change(t, subsequent_node)
    THEN add_vulnerability(list, "Reentrancy",
             <<"A function calls an external contract before updating its state.">>,
             "external_call", "high", get_line_number(t, fn))
    ELSE list

\* (every statement of the list taken as subsequent)
ReentrancyAt_whole_list(t, fn, i, list) ==
    LET stmts == body(t[body(t[fn])])
    IN  IF is_external_call(t, stmts[i])
        THEN ForEach(ReentrancySubsequent, t, fn, stmts, list)
        ELSE list

ReentrancyAt(t, fn, i, list) ==
    LET stmts == body(t[body(t[fn])])
    IN  IF is_external_call(t, stmts[i])
        THEN ForEach(ReentrancySubsequent, t, fn, SubSeq(stmts, i + 1, Len(stmts)), list)
        ELSE list

ReentrancyVisit(t, ctx, node, list) ==
    IF isinstance(t, node, "Function")
    THEN ForEach(ReentrancyAt, t, node,
                 [i \in 1..Len(body(t[body(t[node])])) |-> i], list)
    ELSE list

analyze_reentrancy(text, list) ==
    LET t == Parse(text) IN ForEach(ReentrancyVisit, t, None, Walk(t, 1), list)

\* check_private_key_exposure
\* (the identifier compared as written)
PrivateKeyTarget_case_sensitive(t, node, target, list) ==
    IF isinstance(t, target, "Name") /\ In(t[target].id, private_key_words)
    THEN add_vulnerability(list, "Private Key Exposure",
             <<"Potential exposure of private key in variable '", t[target].id, "'.">>,
             "private_key_exposure", "high", get_line_number(t, node))
    ELSE list

PrivateKeyTarget(t, node, target, list) ==
    IF isinstance(t, target, "Name") /\ In(Lower(t[target].id), private_key_words)
    THEN add_vulnerability(list, "Private Key Exposure",
             <<"Potential exposure of private key in variable '", t[target].id, "'.">>,
             "private_key_exposure", "high", get_line_number(t, node))
    ELSE list

PrivateKeyVisit(t, ctx, node, list) ==
    IF isinstance(t, node, "Assign")
    THEN ForEach(PrivateKeyTarget, t, node, targets(t[node]), list)
    ELSE list

check_private_key_exposure(text, list) ==
    LET t == Parse(text) IN ForEach(PrivateKeyVisit, t, None, Walk(t, 1), list)

\* analyze_floating_pragma
FloatingPragmaVisit(t, ctx, node, list) ==
    IF /\ isinstance(t, node, "Call")
       /\ isinstance(t, func(t[node]), "Name")
       /\ In(t[func(t[node])].id, deprecated_functions)
    THEN add_vulnerability(list, "Floating Pragma",
             <<"Floating pragma issue detected with function '", t[func(t[node])].id, "'.">>,
             "floating_pragma", "low", get_line_number(t, node))
    ELSE list

analyze_floating_pragma(text, list) ==
    LET t == Parse(text) IN ForEach(FloatingPragmaVisit, t, None, Walk(t, 1), list)

\* analyze_denial_of_service
DenialOfServiceVisit(t, ctx, node, list) ==
    IF /\ isinstance(t, node, "Call")
       /\ isinstance(t, func(t[node]), "Name")
       /\ t[func(t[node])].id = perform_expensive_operation
    THEN add_vulnerability(list, "Denial of Service",
             <<"Potential Denial of Service vulnerability detected with function '",
               t[func(t[node])].id, "'.">>,
             "denial_of_service", "medium", get_line_number(t, node))
    ELSE list

analyze_denial_of_service(text, list) ==
    LET t == Parse(text) IN ForEach(DenialOfServiceVisit, t, None, Walk(t, 1), list)

\* analyze_unchecked_external_calls
\* (whatever the Index indexes)
is_unchecked_external_call_any_index(t, node) ==
    /\ isinstance(t, node, "Call")
    /\ isinstance(t, func(t[node]), "Index")

is_unchecked_external_call(t, node) ==
    /\ isinstance(t, node, "Call")
    /\ isinstance(t, func(t[node]), "Index")
    /\ isinstance(t, value(t[func(t[node])]), "Name")

UncheckedStatement(t, fn, n, list) ==
    IF is_unchecked_external_call(t, n)
    THEN add_vulnerability(list, "Unchecked External Calls",
             <<"Unchecked external call detected in function '", t[name(t[fn])].id, "'.">>,
             "unchecked_external_call", "medium", get_line_number(t, n))
    ELSE list

UncheckedVisit(t, ctx, node, list) ==
    IF isinstance(t, node, "Function")
    THEN ForEach(UncheckedStatement, t, node, body(t[body(t[node])]), list)
    ELSE list

analyze_unchecked_external_calls(text, list) ==
    LET t == Parse(text) IN ForEach(UncheckedVisit, t, None, Walk(t, 1), list)

\* analyze_greedy_suicidal_functions
\* (the identifier compared as written)
is_fund_transfer_case_sensitive(t, node) ==
    /\ isinstance(t, node, "Call")
    /\ isinstance(t, func(t[node]), "Name")
    /\ In(t[func(t[node])].id, transfer_functions)

is_fund_transfer(t, node) ==
    /\ isinstance(t, node, "Call")
    /\ isinstance(t, func(t[node]), "Name")
    /\ In(Lower(t[func(t[node])].id), transfer_functions)

has_conditional(t, node) == t[node].type \in {"If", "ElseIf"}

GreedyVisit(t, ctx, node, list) ==
    IF isinstance(t, node, "Function")
    THEN LET stmts == body(t[body(t[node])])
             has_transfer  == \E i \in DOMAIN stmts : is_fund_transfer(t, stmts[i])
             has_condition == \E i \in DOMAIN stmts : has_conditional(t, stmts[i])
         IN IF has_transfer /\ ~has_condition
            THEN add_vulnerability(list, "Greedy/Suicidal Functions",
                     <<"Potential greedy/suicidal contract detected in function '",
                       t[name(t[node])].id, "'.">>,
                     "greedy_suicidal_function", "high", get_line_number(t, node))
            ELSE list
    ELSE list

analyze_greedy_suicidal_functions(text, list) ==
    LET t == Parse(text) IN ForEach(GreedyVisit, t, None, Walk(t, 1), list)

-----------------------------------------------------------------------------
(* The driver: main, print_vulnerabilities, save_report *)

MaxScans == 2          \* files the user has the driver read in one session

exit == <<"e","x","i","t">>

\* str.strip()
RECURSIVE LStrip(_)
LStrip(s) == IF s # <<>> /\ Head(s) = " " THEN LStrip(Tail(s)) ELSE s
RECURSIVE RStrip(_)
RStrip(s) == IF s # <<>> /\ s[Len(s)] = " " THEN RStrip(SubSeq(s, 1, Len(s) - 1)) ELSE s
Strip(s) == RStrip(LStrip(s))

\* what the user may type at the prompt
TypedPaths ==
    DOMAIN disk \cup { exit, <<"E","x","i","t">>, <<" ","e","x","i","t"," ">>,
                       <<"n","o",".","l","u","a">> }

Say(text) == [text |-> text, findings |-> <<>>]

COLORS(key) ==
    CASE key = "red"    -> "\\033[91m"
      [] key = "yellow" -> "\\033[93m"
      [] key = "cyan"   -> "\\033[96m"
      [] OTHER          -> "\\033[0m"

\* print_vulnerabilities: the colour chosen for a finding
Color(vuln) ==
    IF vuln.severity = "high" THEN COLORS("red")
    ELSE IF vuln.severity = "medium" THEN COLORS("yellow")
    ELSE IF vuln.severity = "low" THEN COLORS("cyan")
    ELSE COLORS("reset")

LineVars == <<tree, stack, ret>>

\* main: the user types exit
Exit ==
    /\ pc = "input"
    /\ \E file_path \in TypedPaths : Lower(Strip(file_path)) = exit
    /\ pc' = "exited"
    /\ UNCHANGED <<vulnerabilities, code, disk, stdout, report, scanned, LineVars>>

\* main: the path typed is no file
FileNotFound ==
    /\ pc = "input"
    /\ \E file_path \in TypedPaths :
          /\ Lower(Strip(file_path)) # exit
          /\ Strip(file_path) \notin DOMAIN disk
    /\ stdout' = Say("File not found. Please enter a valid file path.")
    /\ UNCHANGED <<vulnerabilities, pc, code, disk, report, scanned, LineVars>>

\* main: the file is read
ReadFile ==
    /\ pc = "input"
    /\ Len(scanned) < MaxScans
    /\ \E file_path \in TypedPaths :
          /\ Lower(Strip(file_path)) # exit
          /\ Strip(file_path) \in DOMAIN disk
          /\ code' = disk[Strip(file_path)]
    /\ scanned' = Append(scanned, code')
    /\ stdout' = Say("Analyzing the provided Lua code for vulnerabilities:")
    /\ pc' = "analyze_return"
    /\ UNCHANGED <<vulnerabilities, disk, report, LineVars>>

\* ast.parse raises in analyze_return; nothing in main catches it
ParseError ==
    /\ pc = "analyze_return"
    /\ ParseFails(code)
    /\ pc' = "crashed"
    /\ stdout' = Say("Traceback (most recent call last):")
    /\ UNCHANGED <<vulnerabilities, code, disk, report, scanned, LineVars>>

\* a rule called by main: at `at`, leaving the list as `list`, then on to `next`
RuleStep(at, list, next) ==
    /\ pc = at
    /\ ~ParseFails(code)
    /\ vulnerabilities' = list
    /\ pc' = next
    /\ UNCHANGED <<code, disk, stdout, report, scanned, LineVars>>

AnalyzeReturn ==
    RuleStep("analyze_return", analyze_return(code, vulnerabilities),
             "analyze_overflow_and_return")
AnalyzeOverflowAndReturn ==
    RuleStep("analyze_overflow_and_return", analyze_overflow_and_return(code, vulnerabilities),
             "analyze_reentrancy")
AnalyzeReentrancy ==
    RuleStep("analyze_reentrancy", analyze_reentrancy(code, vulnerabilities),
             "check_private_key_exposure")
CheckPrivateKeyExposure ==
    RuleStep("check_private_key_exposure", check_private_key_exposure(code, vulnerabilities),
             "analyze_floating_pragma")
AnalyzeFloatingPragma ==
    RuleStep("analyze_floating_pragma", analyze_floating_pragma(code, vulnerabilities),
             "analyze_denial_of_service")
AnalyzeDenialOfService ==
    RuleStep("analyze_denial_of_service", analyze_denial_of_service(code, vulnerabilities),
             "analyze_unchecked_external_calls")
AnalyzeUncheckedExternalCalls ==
    RuleStep("analyze_unchecked_external_calls",
             analyze_unchecked_external_calls(code, vulnerabilities),
             "analyze_greedy_suicidal_functions")
AnalyzeGreedySuicidalFunctions ==
    RuleStep("analyze_greedy_suicidal_functions",
             analyze_greedy_suicidal_functions(code, vulnerabilities),
             "print_vulnerabilities")

PrintVulnerabilities ==
    /\ pc = "print_vulnerabilities"
    /\ stdout' = [text |-> "findings",
                  findings |-> [i \in DOMAIN vulnerabilities |->
                                   <<Color(vulnerabilities[i]), vulnerabilities[i]>>]]
    /\ pc' = "save_report"
    /\ UNCHANGED <<vulnerabilities, code, disk, report, scanned, LineVars>>

SaveReport ==
    /\ pc = "save_report"
    /\ report' = vulnerabilities
    /\ stdout' = Say("Vulnerability report saved to report.json")
    /\ pc' = "input"
    /\ UNCHANGED <<vulnerabilities, code, disk, scanned, LineVars>>

Rules ==
    \/ AnalyzeReturn
    \/ AnalyzeOverflowAndReturn
    \/ AnalyzeReentrancy
    \/ CheckPrivateKeyExposure
    \/ AnalyzeFloatingPragma
    \/ AnalyzeDenialOfService
    \/ AnalyzeUncheckedExternalCalls
    \/ AnalyzeGreedySuicidalFunctions

Next ==
    \/ Exit
    \/ FileNotFound
    \/ ReadFile
    \/ ParseError
    \/ Rules
    \/ PrintVulnerabilities
    \/ SaveReport

\* the variables of get_line_number's own run, at rest
LineIdle == tree = <<>> /\ stack = <<>> /\ ret = None

-----------------------------------------------------------------------------
(* get_line_number, call by call *)

MaxNodes == 4          \* nodes of the table get_line_number is run on

(* The tables get_line_number is run on: node k either carries a line of   *)
(* its own (k) or none, and refers to an earlier node as its parent or, a  *)
(* root, to none; so no chain of parents comes back to its start.          *)
LineTables ==
    { t \in [1..MaxNodes -> [line : {None} \cup (1..MaxNodes), parent : 0..(MaxNodes - 1)]] :
        \A k \in 1..MaxNodes : t[k].line \in {None, k} /\ t[k].parent < k }

\* (the node's own line, its parent never asked)
GetLineNumberShallow ==
    /\ pc = "get_line_number"
    /\ LET node == stack[Len(stack)]
       IN  /\ ret' = tree[node].line
           /\ pc' = "return"
           /\ UNCHANGED stack
    /\ UNCHANGED <<vulnerabilities, code, disk, stdout, report, scanned, tree>>

\* the call at the top of the stack runs
GetLineNumber ==
    /\ pc = "get_line_number"
    /\ LET node == stack[Len(stack)]
       IN  IF tree[node].line # None
           THEN ret' = tree[node].line /\ pc' = "return" /\ UNCHANGED stack
           ELSE IF tree[node].parent # None
           THEN stack' = Append(stack, tree[node].parent) /\ UNCHANGED <<ret, pc>>
           ELSE ret' = None /\ pc' = "return" /\ UNCHANGED stack
    /\ UNCHANGED <<vulnerabilities, code, disk, stdout, report, scanned, tree>>

\* a call hands its callee's value to its own caller
GetLineNumberReturn ==
    /\ pc = "return"
    /\ IF Len(stack) > 1
       THEN stack' = SubSeq(stack, 1, Len(stack) - 1) /\ UNCHANGED pc
       ELSE pc' = "returned" /\ UNCHANGED stack
    /\ UNCHANGED <<vulnerabilities, code, disk, stdout, report, scanned, tree, ret>>

NextLine == GetLineNumber \/ GetLineNumberReturn

InitLine ==
    /\ vulnerabilities = <<>>
    /\ code = SyntaxError
    /\ disk = <<>>
    /\ stdout = Say("")
    /\ report = <<>>
    /\ scanned = <<>>
    /\ tree \in LineTables
    /\ stack \in { <<node>> : node \in 1..MaxNodes }
    /\ ret = None
    /\ pc = "get_line_number"

SpecLine == InitLine /\ [][NextLine]_vars /\ WF_vars(NextLine)

-----------------------------------------------------------------------------
(* The texts the rules are run on *)

MaxDepth == 2          \* Function bodies a statement is nested in
MaxTargets == 2        \* targets of one Assign
MaxBody == 3           \* statements of a Function's direct statement list

x == Name(<<"x">>)
y == Name(<<"y">>)
One == Number(<<0, 1>>)

\* body, inside `depth` Functions, each the only statement of the one around it
RECURSIVE Nest(_, _)
Nest(stmts, depth) ==
    IF depth = 0 THEN stmts ELSE << Function(<<"f">>, <<>>, Nest(stmts, depth - 1)) >>

\* all sequences over S of lengths lo..hi
SeqsOf(S, lo, hi) == UNION { [1..k -> S] : k \in lo..hi }

\* values on both sides of, and at, INT_MIN and INT_MAX, and zero
Numbers ==
    { <<-32769, 65535>>, <<-32768, 0>>, <<-32768, 1>>, <<0, 0>>,
      <<32767, 65534>>, <<32767, 65535>>, <<32768, 0>> }

\* an operand, a value or a parameter: a literal or a name
Operands == { Number(n) : n \in Numbers } \cup { y }

OverflowStatements ==
         { Assign(<<x>>, << BinOp(op, a, b) >>) :
              op \in {"AddOp", "SubOp", "MultOp"}, a \in Operands, b \in Operands }
    \cup { Assign(<<x>>, << BinOp("DivOp", a, a) >>) : a \in Operands }
    \cup { LocalAssign(<<x>>, <<a>>) : a \in Operands }
    \cup { LocalAssign(<<x, y>>, <<a, b>>) : a \in Operands, b \in Operands }
    \cup { Function(<<"g">>, <<a>>, <<>>) : a \in Operands }
    \cup { Function(<<"g">>, <<a, b>>, <<>>) : a \in Operands, b \in Operands }
    \cup { Function(another_example, <<>>, << Return(<<a>>) >>) : a \in Operands }
    \cup { Function(<<"g">>, <<>>, << Return(<<a>>) >>) : a \in Operands }

OverflowTexts ==
    { Chunk(Nest(<<s>>, depth)) : s \in OverflowStatements, depth \in 0..MaxDepth }

\* identifiers in and around private_key_words
KeyNames ==
    { private_key_words[i] : i \in DOMAIN private_key_words } \cup
    { <<"A","P","I","_","K","E","Y">>,
      <<"S","e","c","r","e","t","_","K","e","y">>,
      <<"p","u","b","l","i","c","_","k","e","y">>,
      <<"m","y","_","p","r","i","v","a","t","e","_","k","e","y">>,
      <<"k","e","y">> }

KeyTargets ==
    { Name(id) : id \in KeyNames } \cup { Index(Name(private_key_words[2]), x) }

MoreKeyTargets ==
    { Name(private_key_words[2]), Name(<<"A","P","I","_","K","E","Y">>),
      Name(<<"p","u","b","l","i","c","_","k","e","y">>) }

KeyStatements ==
         { Assign(<<a>> \o more, <<One>>) :
              a \in KeyTargets, more \in SeqsOf(MoreKeyTargets, 0, MaxTargets - 1) }
    \cup { LocalAssign(<<a>>, <<One>>) : a \in KeyTargets }

KeyTexts == { Chunk(Nest(<<s>>, depth)) : s \in KeyStatements, depth \in 0..1 }

\* external_call(x) and y = 1, directly and inside other statements
ExternalCallStatement == Call(Name(external_call), <<x>>)
StateChange == Assign(<<y>>, <<One>>)

ReentrancyStatements ==
    { ExternalCallStatement,
      StateChange,
      Call(Name(<<"E","x","t","e","r","n","a","l","_","C","a","l","l">>), <<x>>),
      LocalAssign(<<y>>, <<One>>),
      If(x, <<ExternalCallStatement, StateChange>>, <<>>),
      Function(<<"g">>, <<>>, <<ExternalCallStatement, StateChange>>) }

ReentrancyTexts ==
         { Chunk(<< Function(<<"f">>, <<>>, stmts) >>) :
              stmts \in SeqsOf(ReentrancyStatements, 0, MaxBody) }
    \cup { Chunk(<<ExternalCallStatement, StateChange>>) }

\* calls through an index, directly and inside other statements
MethodCall == Call(Index(Name(<<"m">>), Name(<<"o">>)), <<x>>)
DeepMethodCall == Call(Index(Name(<<"m">>), Index(Name(<<"b">>), Name(<<"a">>))), <<x>>)

UncheckedStatements ==
    { MethodCall,
      DeepMethodCall,
      Call(Name(<<"m">>), <<x>>),
      Assign(<<y>>, <<MethodCall>>),
      If(x, <<MethodCall>>, <<>>),
      Function(<<"g">>, <<>>, <<MethodCall>>) }

UncheckedTexts ==
         { Chunk(<< Function(<<"f">>, <<>>, stmts) >>) :
              stmts \in SeqsOf(UncheckedStatements, 0, MaxBody) }
    \cup { Chunk(<<MethodCall>>) }

\* identifiers in and around transfer_functions
Callees ==
    { transfer_functions[i] : i \in DOMAIN transfer_functions } \cup
    { <<"T","r","a","n","s","f","e","r">>, <<"S","E","N","D">>,
      <<"t","r","a","n","s","f","e","r","s">>, <<"p","r","i","n","t">> }

GreedyStatements(callee) ==
    { Call(Name(callee), <<x>>),
      If(x, << Call(Name(callee), <<x>>) >>, <<>>),
      Function(<<"g">>, <<>>, << If(x, <<>>, <<>>), Call(Name(callee), <<x>>) >>),
      StateChange }

GreedyTexts ==
         { Chunk(<< Function(<<"f">>, <<>>, stmts) >>) :
              stmts \in UNION { SeqsOf(GreedyStatements(callee), 0, MaxBody) : callee \in Callees } }
    \cup { Chunk(<< Call(Name(transfer_functions[1]), <<x>>) >>) }

\* the files of the interactive session
DriverDisk ==
    ( <<"a",".","l","u","a">> :>
        Chunk(<< Function(<<"f">>, <<>>,
                   << ExternalCallStatement,
                      StateChange,
                      Assign(<<x>>, << BinOp("AddOp", y, Number(INT_MAX)) >>),
                      MethodCall >>) >>) )
    @@
    ( <<"b",".","l","u","a">> :>
        Chunk(<< Assign(<< Name(private_key_words[2]), Name(private_key_words[7]) >>, <<One, One>>),
                 Call(Name(deprecated_functions[2]), <<>>),
                 Call(Name(perform_expensive_operation), <<>>),
                 Function(another_example, <<>>,
                   << Call(Name(transfer_functions[1]), <<x>>),
                      Return(<< Number(<<32768, 0>>) >>) >>) >>) )
    @@
    ( <<"c",".","l","u","a">> :>
        Chunk(<< Function(<<"f">>, <<>>, << Return(<<One>>) >>) >>) )
    @@
    ( <<"d",".","l","u","a">> :> SyntaxError )

-----------------------------------------------------------------------------
(* Specifications *)

Init ==
    /\ vulnerabilities = <<>>
    /\ pc = "input"
    /\ code = SyntaxError
    /\ disk = DriverDisk
    /\ stdout = Say("")
    /\ report = <<>>
    /\ scanned = <<>>
    /\ LineIdle

Spec == Init /\ [][Next]_vars

\* one scan of `text`, as main starts it on a fresh process
InitScan(texts) ==
    /\ vulnerabilities = <<>>
    /\ pc = "analyze_return"
    /\ code \in texts
    /\ disk = <<>>
    /\ stdout = Say("Analyzing the provided Lua code for vulnerabilities:")
    /\ report = <<>>
    /\ scanned = <<code>>
    /\ LineIdle

InitOverflow == InitScan(OverflowTexts)
SpecOverflow == InitOverflow /\ [][Rules]_vars

InitKey == InitScan(KeyTexts)
SpecKey == InitKey /\ [][Rules]_vars

InitReentrancy == InitScan(ReentrancyTexts)
SpecReentrancy == InitReentrancy /\ [][Rules]_vars

InitUnchecked == InitScan(UncheckedTexts)
SpecUnchecked == InitUnchecked /\ [][Rules]_vars

InitGreedy == InitScan(GreedyTexts)
SpecGreedy == InitGreedy /\ [][Rules]_vars

-----------------------------------------------------------------------------
(* Properties *)

\* main, lines 265-272, on an empty list: the findings one scan of `text` detects
ScanOf(text) ==
    analyze_greedy_suicidal_functions(text,
      analyze_unchecked_external_calls(text,
        analyze_denial_of_service(text,
          analyze_floating_pragma(text,
            check_private_key_exposure(text,
              analyze_reentrancy(text,
                analyze_overflow_and_return(text,
                  analyze_return(text, <<>>))))))))

\* the findings of the list with this pattern and this line
Hits(pattern, line) ==
    { i \in DOMAIN vulnerabilities :
        vulnerabilities[i].pattern = pattern /\ vulnerabilities[i].line = line }

Count(pattern, line) == Cardinality(Hits(pattern, line))

\* the eight rules have run on `code`
RulesDone == pc = "print_vulnerabilities"

\* the findings print_vulnerabilities wrote, without their colours
Printed == [i \in DOMAIN stdout.findings |-> stdout.findings[i][2]]

\* C1: the findings printed and saved for a file are those its own scan detects
C1_ReportHoldsOnlyThisScan ==
    /\ pc = "save_report" => Printed = ScanOf(code)
    /\ (pc = "input" /\ stdout = Say("Vulnerability report saved to report.json"))
          => report = ScanOf(code)

\* C2: scanning the same text a second time, the list not cleared in between,
\* leaves the first scan's findings F in place and appends F again;
\* no step changes, removes or moves an entry the list already holds
C2_RescanDoubles ==
    /\ []((pc = "save_report" /\ Len(scanned) = 2 /\ scanned[1] = scanned[2])
            => /\ report = ScanOf(code)
               /\ vulnerabilities = report \o report)
    /\ [][/\ Len(vulnerabilities') >= Len(vulnerabilities)
          /\ SubSeq(vulnerabilities', 1, Len(vulnerabilities)) = vulnerabilities]_vars

C2_Witness ==
    /\ pc = "save_report" /\ Len(scanned) = 2 /\ scanned[1] = scanned[2]
    /\ Len(report) >= 2
    /\ Len(vulnerabilities) = 2 * Len(report)

\* node k of t is a Number that is an operand of Add/Sub/Mult, a value of a
\* LocalAssign or a parameter of a Function
Positioned(t, k) ==
    /\ t[k].type = "Number"
    /\ t[k].parent # None
    /\ LET p == t[t[k].parent]
       IN  \/ p.type \in {"AddOp", "SubOp", "MultOp"}
           \/ p.type = "LocalAssign" /\ In(k, p.f[2])
           \/ p.type = "Function" /\ In(k, p.f[2])

\* n >= 2147483647 or n <= -2147483648
OutOfRange(n) ==
    \/ n[1] > 32767 \/ (n[1] = 32767 /\ n[2] >= 65535)
    \/ n[1] < -32768 \/ (n[1] = -32768 /\ n[2] <= 0)

\* C3: a positioned literal at or beyond INT_MAX or INT_MIN gets at least one
\* overflow_underflow finding, all of them high; one strictly inside gets none
C3_OverflowBoundaries ==
    RulesDone =>
      LET t == Parse(code)
      IN  \A k \in DOMAIN t :
            Positioned(t, k) =>
              IF OutOfRange(t[k].n)
              THEN /\ Hits("overflow_underflow", t[k].line) # {}
                   /\ \A i \in Hits("overflow_underflow", t[k].line) :
                         vulnerabilities[i].severity = "high"
              ELSE Hits("overflow_underflow", t[k].line) = {}

C3_Witness ==
    /\ RulesDone
    /\ LET t == Parse(code)
       IN  \E k, m \in DOMAIN t :
             /\ Positioned(t, k) /\ t[k].n = <<32767, 65535>>
             /\ Positioned(t, m) /\ t[m].n = <<32767, 65534>>
             /\ Hits("overflow_underflow", t[k].line) # {}
             /\ Hits("overflow_underflow", t[m].line) = {}

\* the direct statements of Function fn
Direct(t, fn) == t[t[fn].f[3][1]].f[1]

\* statement s is a Call to the name external_call
CallsExternal(t, s) ==
    /\ t[s].type = "Call"
    /\ t[t[s].f[1][1]].type = "Name"
    /\ t[t[s].f[1][1]].id = <<"e","x","t","e","r","n","a","l","_","c","a","l","l">>

\* the positions of fn's direct statement list holding an external_call that
\* an Assign follows
ExternalThenAssign(t, fn) ==
    { i \in DOMAIN Direct(t, fn) :
        /\ CallsExternal(t, Direct(t, fn)[i])
        /\ \E j \in DOMAIN Direct(t, fn) : j > i /\ t[Direct(t, fn)[j]].type = "Assign" }

Functions(t) == { k \in DOMAIN t : t[k].type = "Function" }

\* C4: one finding per violation instance, wherever it is in the tree: one per
\* out-of-range literal, one per external_call that Assigns follow; at most one
\* Missing Return and one Greedy/Suicidal finding per Function
C4_OneFindingPerInstance ==
    (RulesDone /\ Len(scanned) = 1) =>
      LET t == Parse(code)
      IN  /\ \A k \in DOMAIN t :
                (Positioned(t, k) /\ OutOfRange(t[k].n))
                   => Count("overflow_underflow", t[k].line) = 1
          /\ \A fn \in Functions(t) :
                /\ Count("external_call", t[fn].line) = Cardinality(ExternalThenAssign(t, fn))
                /\ Count("missing_return", t[fn].line) <= 1
                /\ Count("greedy_suicidal_function", t[fn].line) <= 1

\* the identifiers of KeyNames whose lower-cased form is a private-key word
MatchingKeyNames ==
    { <<"p","r","i","v","a","t","e","k","e","y">>,
      <<"p","r","i","v","a","t","e","_","k","e","y">>,
      <<"s","e","c","r","e","t","k","e","y">>,
      <<"s","e","c","r","e","t","_","k","e","y">>,
      <<"k","e","y","p","a","i","r">>,
      <<"k","e","y","_","p","a","i","r">>,
      <<"a","p","i","_","k","e","y">>,
      <<"A","P","I","_","K","E","Y">>,
      <<"S","e","c","r","e","t","_","K","e","y">> }

\* the positions of Assign k's targets holding a Name that matches
MatchingTargets(t, k) ==
    { j \in DOMAIN t[k].f[1] :
        t[t[k].f[1][j]].type = "Name" /\ t[t[k].f[1][j]].id \in MatchingKeyNames }

\* every private_key_exposure finding is high and is on the line of an Assign
KeyFindingsWellPlaced(t) ==
    \A i \in DOMAIN vulnerabilities :
       vulnerabilities[i].pattern = "private_key_exposure"
          => /\ vulnerabilities[i].severity = "high"
             /\ \E k \in DOMAIN t : t[k].type = "Assign" /\ t[k].line = vulnerabilities[i].line

\* C5 (as stated): one finding per Assign that has a matching target, however
\* many of its targets match; none for an Assign that has none
C5_OnePerAssign ==
    RulesDone =>
      LET t == Parse(code)
      IN  /\ KeyFindingsWellPlaced(t)
          /\ \A k \in DOMAIN t :
                t[k].type = "Assign" =>
                   Count("private_key_exposure", t[k].line)
                      = IF MatchingTargets(t, k) # {} THEN 1 ELSE 0

\* C5 (amended): one finding per matching target of an Assign; none for an
\* Assign whose targets all fall outside the set
C5_OnePerMatchingTarget ==
    RulesDone =>
      LET t == Parse(code)
      IN  /\ KeyFindingsWellPlaced(t)
          /\ \A k \in DOMAIN t :
                t[k].type = "Assign" =>
                   Count("private_key_exposure", t[k].line)
                      = Cardinality(MatchingTargets(t, k))

C5_Witness ==
    /\ RulesDone
    /\ LET t == Parse(code)
       IN  \E k \in DOMAIN t :
             /\ t[k].type = "Assign"
             /\ Cardinality(MatchingTargets(t, k)) = 2
             /\ Count("private_key_exposure", t[k].line) = 2
             /\ \E j \in DOMAIN t[k].f[1] :
                   t[t[k].f[1][j]].id = <<"A","P","I","_","K","E","Y">>

\* the types of fn's direct statements, external_call calls told apart
Shape(t, fn) ==
    [i \in DOMAIN Direct(t, fn) |->
        IF CallsExternal(t, Direct(t, fn)[i]) THEN "external_call"
        ELSE t[Direct(t, fn)[i]].type]

\* C6: a Function gets a Reentrancy finding exactly when, in its direct
\* statement list, an external_call comes strictly before an Assign;
\* external_call(x) then y = 1 gives exactly one, the reverse order none;
\* Reentrancy findings are on Functions' lines only
C6_ReentrancyOrder ==
    RulesDone =>
      LET t == Parse(code)
      IN  /\ \A fn \in Functions(t) :
                /\ (Count("external_call", t[fn].line) >= 1)
                      <=> (ExternalThenAssign(t, fn) # {})
                /\ Shape(t, fn) = <<"external_call", "Assign">>
                      => Count("external_call", t[fn].line) = 1
                /\ Shape(t, fn) = <<"Assign", "external_call">>
                      => Count("external_call", t[fn].line) = 0
          /\ \A i \in DOMAIN vulnerabilities :
                vulnerabilities[i].pattern = "external_call"
                   => \E fn \in Functions(t) : t[fn].line = vulnerabilities[i].line

C6_Witness ==
    /\ RulesDone
    /\ LET t == Parse(code)
       IN  \E fn, gn \in Functions(t) :
             \* the outer Function holds only blocks that hold the pair; the
             \* inner one holds the pair directly
             /\ Shape(t, fn) = <<"If", "Function">>
             /\ Count("external_call", t[fn].line) = 0
             /\ Shape(t, gn) = <<"external_call", "Assign">>
             /\ Count("external_call", t[gn].line) = 1

\* statement s is a Call whose callee is an Index
CallsThroughIndex(t, s) ==
    t[s].type = "Call" /\ t[t[s].f[1][1]].type = "Index"

\* ... an Index whose indexed value is a plain Name
CallsThroughNameIndex(t, s) ==
    CallsThroughIndex(t, s) /\ t[t[t[s].f[1][1]].f[2][1]].type = "Name"

\* the direct statements of the Functions of t
DirectStatements(t) ==
    { s \in DOMAIN t : \E fn \in Functions(t) : In(s, Direct(t, fn)) }

\* every unchecked_external_call finding is medium and is on the line of a
\* direct statement of a Function
UncheckedFindingsWellPlaced(t) ==
    \A i \in DOMAIN vulnerabilities :
       vulnerabilities[i].pattern = "unchecked_external_call"
          => /\ vulnerabilities[i].severity = "medium"
             /\ \E s \in DirectStatements(t) : t[s].line = vulnerabilities[i].line

\* C7 (as stated): one finding for each direct statement of a Function that
\* is a Call through an Index, whatever is indexed; none for nested calls
C7_AnyIndexedCallee ==
    RulesDone =>
      LET t == Parse(code)
      IN  /\ UncheckedFindingsWellPlaced(t)
          /\ \A s \in DirectStatements(t) :
                Count("unchecked_external_call", t[s].line)
                   = IF CallsThroughIndex(t, s) THEN 1 ELSE 0

\* C7 (amended): one finding for each direct statement of a Function that is
\* a Call through an Index of a plain Name; none where the indexed value is
\* itself an Index, and none for nested calls
C7_NameIndexedCallee ==
    RulesDone =>
      LET t == Parse(code)
      IN  /\ UncheckedFindingsWellPlaced(t)
          /\ \A s \in DirectStatements(t) :
                Count("unchecked_external_call", t[s].line)
                   = IF CallsThroughNameIndex(t, s) THEN 1 ELSE 0

C7_Witness ==
    /\ RulesDone
    /\ LET t == Parse(code)
       IN  \E s, u \in DirectStatements(t) :
             /\ CallsThroughNameIndex(t, s)
             /\ Count("unchecked_external_call", t[s].line) = 1
             /\ CallsThroughIndex(t, u) /\ ~CallsThroughNameIndex(t, u)
             /\ Count("unchecked_external_call", t[u].line) = 0

\* the identifiers of Callees whose lower-cased form is a transfer function
MatchingCallees ==
    { <<"t","r","a","n","s","f","e","r">>,
      <<"t","r","a","n","s","f","e","r","_","f","u","n","d","s">>,
      <<"t","r","a","n","s","f","e","r","f","u","n","d","s">>,
      <<"s","e","n","d">>,
      <<"p","a","y">>,
      <<"T","r","a","n","s","f","e","r">>,
      <<"S","E","N","D">> }

\* the positions of fn's direct statement list holding a transfer call
Transfers(t, fn) ==
    { i \in DOMAIN Direct(t, fn) :
        /\ t[Direct(t, fn)[i]].type = "Call"
        /\ t[t[Direct(t, fn)[i]].f[1][1]].type = "Name"
        /\ t[t[Direct(t, fn)[i]].f[1][1]].id \in MatchingCallees }

\* ... holding an If or an ElseIf
Conditionals(t, fn) ==
    { i \in DOMAIN Direct(t, fn) : t[Direct(t, fn)[i]].type \in {"If", "ElseIf"} }

\* C8: a Function gets exactly one Greedy/Suicidal finding, a high one, when
\* its direct statement list holds a transfer call and no If/ElseIf, and none
\* otherwise; the findings are on Functions' lines only
C8_GreedyUnlessConditional ==
    RulesDone =>
      LET t == Parse(code)
      IN  /\ \A fn \in Functions(t) :
                Count("greedy_suicidal_function", t[fn].line)
                   = IF Transfers(t, fn) # {} /\ Conditionals(t, fn) = {} THEN 1 ELSE 0
          /\ \A i \in DOMAIN vulnerabilities :
                vulnerabilities[i].pattern = "greedy_suicidal_function"
                   => /\ vulnerabilities[i].severity = "high"
                      /\ \E fn \in Functions(t) : t[fn].line = vulnerabilities[i].line

\* two transfer calls and then an If: suppressed
C8_Witness ==
    /\ RulesDone
    /\ LET t == Parse(code)
       IN  \E fn \in Functions(t) :
             /\ Cardinality(Transfers(t, fn)) = 2
             /\ Conditionals(t, fn) = {3}
             /\ Count("greedy_suicidal_function", t[fn].line) = 0

\* C9: a scan of malformed text appends no finding and leaves the driver at
\* its prompt, able to scan the next file
C9_ParseFailureStaysInLoop ==
    [][(pc = "analyze_return" /\ ParseFails(code))
          => (vulnerabilities' = vulnerabilities /\ pc' = "input")]_vars

\* node, parent(node), parent(parent(node)), ... up to the root
RECURSIVE ChainOf(_, _)
ChainOf(t, node) ==
    <<node>> \o (IF t[node].parent # None THEN ChainOf(t, t[node].parent) ELSE <<>>)

\* the line of the nearest node of the chain that carries one; None if none does
NearestLine(t, node) ==
    LET chain == ChainOf(t, node)
        lined == { i \in DOMAIN chain : t[chain[i]].line # None }
    IN  IF lined = {} THEN None
        ELSE t[chain[CHOOSE i \in lined : \A j \in lined : i <= j]].line

\* C10: get_line_number returns, with the line of the nearest node on the
\* chain of parents that carries one and None exactly when none does, and
\* changes no node
C10_NearestLine ==
    /\ [](pc = "returned" => ret = NearestLine(tree, stack[1]))
    /\ [][tree' = tree]_vars
    /\ <>(pc = "returned")

\* the line came from the parent's parent
C10_Witness ==
    /\ pc = "returned"
    /\ ret # None
    /\ tree[stack[1]].line = None
    /\ tree[stack[1]].parent # None
    /\ tree[tree[stack[1]].parent].line = None
    /\ tree[tree[stack[1]].parent].parent # None
    /\ ret = tree[tree[tree[stack[1]].parent].parent].line

=============================================================================
